---- MODULE Spec2Model ----
(***************************************************************************)
(* Conv444to422Generic (HDRTools): horizontal 4:4:4 -> 4:2:2 chroma        *)
(* subsampling, modelled from Conv444to422Generic.cpp.                     *)
(*                                                                         *)
(* Numbers.  A float sample is an integer count of half units (1 is 0.5,   *)
(* -1 is -0.5, 200 is 100.0): the floats of the model are the integers.    *)
(* A double is an exact ratio [n, d] with d > 0: every float is a double   *)
(* (n, 1), and the cast (float) rounds a double to the nearest float,      *)
(* ties to even, as the hardware does.  Integer samples are plain          *)
(* integers; a store into a uint16 or imgpel buffer keeps the low 16 or 8  *)
(* bits.                                                                   *)
(*                                                                         *)
(* TransferFunctionST240, modelled from TransferFunctionST240.cpp.  Its    *)
(* doubles are fixed-point: an integer count of 1e-8 (Unit is 1.0), with   *)
(* pow computed as exp(y * ln x) from series, good to about 1e-7.          *)
(***************************************************************************)
EXTENDS Integers, Sequences, FiniteSets, TLC

VARIABLES
  self,     \* the converter: m_useMinMax, m_horFilter, m_horFilterM
  inp,      \* process: the input frame (4:4:4)
  out,      \* process: the output frame (4:2:2)
  out0,     \* process: the output frame as it was when process was entered
  pc,       \* "ready", then "returned" (control is back in the caller) or "exited"
  stderr,   \* what the call printed on stderr
  status,   \* the status the process exited with, NULL while it runs
  args,     \* filter: the arguments inp, width, height, minValue, maxValue
  res,      \* filter: the buffer written through the argument out
  tf,       \* the transfer function: m_inverseGamma, m_gamma, m_alpha, m_beta, m_invBeta
  calls,    \* transfer function: the methods called so far, in order
  values    \* transfer function: the value given, then what each call returned

vars == <<self, inp, out, out0, pc, stderr, status, args, res, tf, calls, values>>

\* ------------------------------------------------------------------ bounds

\* widest output chroma plane handed to filter (the input row is twice as wide)
MaxWidth == 2
\* tallest plane handed to filter
MaxHeight == 2

\* ------------------------------------------------------------- arithmetic

NULL == "NULL"

\* Global.H: clamp of an int / of a float to [low, high]
iClip(x, low, high) == IF x < low THEN low ELSE IF x > high THEN high ELSE x

fClip(x, low, high) == IF x < low THEN low ELSE IF x > high THEN high ELSE x

\* a float (or an int) read as a double
ToDouble(x) == [n |-> x, d |-> 1]

\* d1 > x and d1 < x for a double d1 and a float x
DGreater(d1, x) == d1.n > x * d1.d

DLess(d1, x) == d1.n < x * d1.d

\* (float) d1: the nearest float, ties to the even one
CastFloat(d1) ==
  LET q == d1.n \div d1.d
      r == d1.n % d1.d
  IN  IF 2 * r < d1.d THEN q
      ELSE IF 2 * r > d1.d THEN q + 1
      ELSE IF q % 2 = 0 THEN q ELSE q + 1

\* x >> s on an int: the arithmetic shift
ShiftRight(x, s) == x \div (2 ^ s)

\* 1e20 and -1e20, the starting values of dMin and dMax: beyond every sample
Huge == 1000000

\* ----------------------------------------------------------- filter tables

\* ScaleFilter's tables.  m_floatScale is the ratio m_floatScaleNum / m_floatScaleDen.
Table(taps, posOff, fOff, sNum, sDen, iOff, iShift, clip) ==
  [ m_numberOfTaps   |-> Len(taps),
    m_positionOffset |-> posOff,
    m_floatFilter    |-> taps,
    m_floatOffset    |-> fOff,
    m_floatScaleNum  |-> sNum,
    m_floatScaleDen  |-> sDen,
    m_i32Filter      |-> taps,
    m_i32Offset      |-> iOff,
    m_i32Shift       |-> iShift,
    m_clip           |-> clip ]

DF_F0 == "DF_F0"

Methods == {"DF_F0", "DF_BOX", "DF_BOXC", "DF_SHARP", "DF_SHARPC", "DF_WIDE"}

\* new ScaleFilter(method, 0, 2, 0, 0, &offset, &scale, hPhase)
ScaleFilter(method, hPhase) ==
  CASE method = "DF_F0" ->
         IF hPhase = 0 THEN Table(<<1, 2, 1>>, 1, 0, 1, 4, 2, 2, FALSE)
                       ELSE Table(<<1, 1>>, 0, 0, 1, 2, 1, 1, FALSE)
    [] method = "DF_BOX" ->
         IF hPhase = 0 THEN Table(<<0, 1, 1, 0>>, 1, 0, 1, 2, 1, 1, FALSE)
                       ELSE Table(<<1, 1, 1>>, 1, 0, 1, 3, 0, 0, FALSE)
    [] method = "DF_BOXC" ->
         IF hPhase = 0 THEN Table(<<0, 1, 1, 0>>, 1, 0, 1, 2, 1, 1, TRUE)
                       ELSE Table(<<1, 1, 1>>, 1, 0, 1, 3, 0, 0, TRUE)
    [] method = "DF_SHARP" ->
         IF hPhase = 0 THEN Table(<<-1, 4, -1>>, 1, 0, 1, 2, 1, 1, FALSE)
                       ELSE Table(<<-1, 5, 5, -1>>, 1, 0, 1, 8, 4, 3, FALSE)
    [] method = "DF_SHARPC" ->
         IF hPhase = 0 THEN Table(<<-1, 4, -1>>, 1, 0, 1, 2, 1, 1, TRUE)
                       ELSE Table(<<-1, 5, 5, -1>>, 1, 0, 1, 8, 4, 3, TRUE)
    [] OTHER ->
         IF hPhase = 0 THEN Table(<<-1, 0, 3, 0, -1>>, 2, 1, 1, 1, 0, 0, TRUE)
                       ELSE Table(<<1, 0, 0, 1>>, 2, 1, 1, 2, 1, 1, FALSE)

\* ------------------------------------------------------------- constructor

ChromaLocations == {"CL_ZERO", "CL_ONE", "CL_TWO", "CL_THREE", "CL_FOUR", "CL_FIVE"}

\* the switch on chromaLocationType[FP_FRAME]
HPhase(chromaLocationType) ==
  CASE chromaLocationType = "CL_FIVE"  -> 1
    [] chromaLocationType = "CL_FOUR"  -> 0
    [] chromaLocationType = "CL_THREE" -> 1
    [] chromaLocationType = "CL_TWO"   -> 0
    [] chromaLocationType = "CL_ONE"   -> 1
    [] OTHER                           -> 0

Conv444to422Generic(method, chromaLocationType, useMinMax) ==
  LET hPhase == HPhase(chromaLocationType)
  IN  [ m_horFilter  |-> ScaleFilter(method, hPhase),
        m_useMinMax  |-> useMinMax,
        m_horFilterM |-> IF useMinMax # 0 THEN ScaleFilter(DF_F0, hPhase) ELSE NULL ]

\* --------------------------------------------------- filterHorizontal family

\* TapIndex with the upper limit taken for a sample count
TapIndex_CountLimit(filter, pos_x, width, i) ==
  iClip(pos_x + i - filter.m_positionOffset, 0, width - 1)

\* iClip(pos_x + i - filter->m_positionOffset, 0, width): the column tap i reads
TapIndex(filter, pos_x, width, i) ==
  iClip(pos_x + i - filter.m_positionOffset, 0, width)

\* inp[iClip(...)], where inp = &plane[base] is the row's first sample
Tap(plane, base, filter, pos_x, width, i) ==
  plane[base + TapIndex(filter, pos_x, width, i) + 1]

\* Accumulate with the loop one tap short
RECURSIVE Accumulate_OneShort(_, _, _, _, _, _, _)
Accumulate_OneShort(plane, base, filter, coeff, pos_x, width, i) ==
  IF i >= filter.m_numberOfTaps - 1 THEN 0
  ELSE coeff[i + 1] * Tap(plane, base, filter, pos_x, width, i)
       + Accumulate_OneShort(plane, base, filter, coeff, pos_x, width, i + 1)

\* for (i = 0; i < taps; i++) value += coeff[i] * inp[...], from tap i on
RECURSIVE Accumulate(_, _, _, _, _, _, _)
Accumulate(plane, base, filter, coeff, pos_x, width, i) ==
  IF i >= filter.m_numberOfTaps THEN 0
  ELSE coeff[i + 1] * Tap(plane, base, filter, pos_x, width, i)
       + Accumulate(plane, base, filter, coeff, pos_x, width, i + 1)

\* the loop's dMin, from tap i on, entered with dMin
RECURSIVE LoopMin(_, _, _, _, _, _, _)
LoopMin(plane, base, filter, pos_x, width, i, dMin) ==
  IF i >= filter.m_numberOfTaps THEN dMin
  ELSE LET dCurPixel == Tap(plane, base, filter, pos_x, width, i)
       IN  LoopMin(plane, base, filter, pos_x, width, i + 1,
                   IF dMin > dCurPixel THEN dCurPixel ELSE dMin)

\* the loop's dMax, from tap i on, entered with dMax
RECURSIVE LoopMax(_, _, _, _, _, _, _)
LoopMax(plane, base, filter, pos_x, width, i, dMax) ==
  IF i >= filter.m_numberOfTaps THEN dMax
  ELSE LET dCurPixel == Tap(plane, base, filter, pos_x, width, i)
       IN  LoopMax(plane, base, filter, pos_x, width, i + 1,
                   IF dMax < dCurPixel THEN dCurPixel ELSE dMax)

\* (value + (double) f->m_floatOffset) * (double) f->m_floatScale
Scaled(value, f) ==
  [n |-> (value + f.m_floatOffset) * f.m_floatScaleNum, d |-> f.m_floatScaleDen]

\* the closing if (filter->m_clip == TRUE) of the three overshoot routines
ClipReturn(filter, dScaledValue, minValue, maxValue) ==
  IF filter.m_clip = TRUE
    THEN fClip(CastFloat(dScaledValue), minValue, maxValue)
    ELSE CastFloat(dScaledValue)

\* filterHorizontalMinMax with dMin and dMax taken over the fallback filter's taps
filterHorizontalMinMax_FallbackWindow(this, plane, base, filter, pos_x, width, minValue, maxValue) ==
  LET value  == Accumulate(plane, base, filter, filter.m_floatFilter, pos_x, width, 0)
      dMin   == LoopMin(plane, base, this.m_horFilterM, pos_x, width, 0, Huge)
      dMax   == LoopMax(plane, base, this.m_horFilterM, pos_x, width, 0, -Huge)
      first  == Scaled(value, filter)
      valueM == Accumulate(plane, base, this.m_horFilterM, this.m_horFilterM.m_floatFilter,
                           pos_x, width, 0)
      dScaledValue == IF DGreater(first, dMax) \/ DLess(first, dMin)
                        THEN Scaled(valueM, this.m_horFilterM)
                        ELSE first
  IN  ClipReturn(filter, dScaledValue, minValue, maxValue)

filterHorizontalMinMax(this, plane, base, filter, pos_x, width, minValue, maxValue) ==
  LET value  == Accumulate(plane, base, filter, filter.m_floatFilter, pos_x, width, 0)
      dMin   == LoopMin(plane, base, filter, pos_x, width, 0, Huge)
      dMax   == LoopMax(plane, base, filter, pos_x, width, 0, -Huge)
      first  == Scaled(value, filter)
      valueM == Accumulate(plane, base, this.m_horFilterM, this.m_horFilterM.m_floatFilter,
                           pos_x, width, 0)
      dScaledValue == IF DGreater(first, dMax) \/ DLess(first, dMin)
                        THEN Scaled(valueM, this.m_horFilterM)
                        ELSE first
  IN  ClipReturn(filter, dScaledValue, minValue, maxValue)

filterHorizontalMinMax2(this, plane, base, filter, pos_x, width, minValue, maxValue) ==
  LET value  == Accumulate(plane, base, filter, filter.m_floatFilter, pos_x, width, 0)
      first  == Scaled(value, filter)
      valueM == Accumulate(plane, base, this.m_horFilterM, this.m_horFilterM.m_floatFilter,
                           pos_x, width, 0)
      dMin   == LoopMin(plane, base, this.m_horFilterM, pos_x, width, 0, Huge)
      dMax   == LoopMax(plane, base, this.m_horFilterM, pos_x, width, 0, -Huge)
      dScaledValue == IF DGreater(first, dMax) \/ DLess(first, dMin)
                        THEN Scaled(valueM, this.m_horFilterM)
                        ELSE first
  IN  ClipReturn(filter, dScaledValue, minValue, maxValue)

\* filterHorizontalMinMax3 with dMin and dMax taken over the primary filter's taps
filterHorizontalMinMax3_OwnWindow(this, plane, base, filter, pos_x, width, minValue, maxValue) ==
  LET value  == Accumulate(plane, base, filter, filter.m_floatFilter, pos_x, width, 0)
      first  == Scaled(value, filter)
      dMin   == LoopMin(plane, base, filter, pos_x, width, 0, Huge)
      dMax   == LoopMax(plane, base, filter, pos_x, width, 0, -Huge)
      upper  == IF DGreater(first, dMax) THEN ToDouble(dMax) ELSE first
      dScaledValue == IF DLess(upper, dMin) THEN ToDouble(dMin) ELSE upper
  IN  ClipReturn(filter, dScaledValue, minValue, maxValue)

filterHorizontalMinMax3(this, plane, base, filter, pos_x, width, minValue, maxValue) ==
  LET value  == Accumulate(plane, base, filter, filter.m_floatFilter, pos_x, width, 0)
      first  == Scaled(value, filter)
      dMin   == LoopMin(plane, base, this.m_horFilterM, pos_x, width, 0, Huge)
      dMax   == LoopMax(plane, base, this.m_horFilterM, pos_x, width, 0, -Huge)
      upper  == IF DGreater(first, dMax) THEN ToDouble(dMax) ELSE first
      dScaledValue == IF DLess(upper, dMin) THEN ToDouble(dMin) ELSE upper
  IN  ClipReturn(filter, dScaledValue, minValue, maxValue)

\* filterHorizontal(const float *...): the clip is to the literals -0.5 and 0.5
filterHorizontalFloat(plane, base, filter, pos_x, width, minValue, maxValue) ==
  LET value == Accumulate(plane, base, filter, filter.m_floatFilter, pos_x, width, 0)
  IN  IF filter.m_clip = TRUE
        THEN fClip(CastFloat(Scaled(value, filter)), -1, 1)
        ELSE CastFloat(Scaled(value, filter))

\* filterHorizontal(const uint16 *...) and filterHorizontal(const imgpel *...)
filterHorizontalInt(plane, base, filter, pos_x, width, minValue, maxValue) ==
  LET value == Accumulate(plane, base, filter, filter.m_i32Filter, pos_x, width, 0)
  IN  IF filter.m_clip = TRUE
        THEN iClip(ShiftRight(value + filter.m_i32Offset, filter.m_i32Shift), minValue, maxValue)
        ELSE ShiftRight(value + filter.m_i32Offset, filter.m_i32Shift)

\* ------------------------------------------------------------------ filter

\* filterFloatAt with every m_useMinMax of 3 or more taken for 3
filterFloatAt_AtLeastThree(this, plane, width, k, minValue, maxValue) ==
  LET i == k % width
      j == k \div width
      inp_width == 2 * width
      base == j * inp_width
  IN  IF this.m_useMinMax = 1
        THEN filterHorizontalMinMax(this, plane, base, this.m_horFilter, 2 * i,
                                    inp_width - 1, minValue, maxValue)
      ELSE IF this.m_useMinMax = 2
        THEN filterHorizontalMinMax2(this, plane, base, this.m_horFilter, 2 * i,
                                     inp_width - 1, minValue, maxValue)
      ELSE IF this.m_useMinMax >= 3
        THEN filterHorizontalMinMax3(this, plane, base, this.m_horFilter, 2 * i,
                                     inp_width - 1, minValue, maxValue)
      ELSE filterHorizontalFloat(plane, base, this.m_horFilter, 2 * i,
                                 inp_width - 1, minValue, maxValue)

\* out[j * width + i], for the 0-based position k = j * width + i of the output
filterFloatAt(this, plane, width, k, minValue, maxValue) ==
  LET i == k % width
      j == k \div width
      inp_width == 2 * width
      base == j * inp_width
  IN  IF this.m_useMinMax = 1
        THEN filterHorizontalMinMax(this, plane, base, this.m_horFilter, 2 * i,
                                    inp_width - 1, minValue, maxValue)
      ELSE IF this.m_useMinMax = 2
        THEN filterHorizontalMinMax2(this, plane, base, this.m_horFilter, 2 * i,
                                     inp_width - 1, minValue, maxValue)
      ELSE IF this.m_useMinMax = 3
        THEN filterHorizontalMinMax3(this, plane, base, this.m_horFilter, 2 * i,
                                     inp_width - 1, minValue, maxValue)
      ELSE filterHorizontalFloat(plane, base, this.m_horFilter, 2 * i,
                                 inp_width - 1, minValue, maxValue)

\* filter(float *out, const float *inp, width, height, minValue, maxValue)
filterFloat(this, plane, width, height, minValue, maxValue) ==
  [k \in 1..(width * height) |->
     filterFloatAt(this, plane, width, k - 1, minValue, maxValue)]

\* filterUInt16 with the fallback table's taps where there is an overshoot policy
filterUInt16_FallbackTaps(this, plane, width, height, minValue, maxValue) ==
  [k \in 1..(width * height) |->
     filterHorizontalInt(plane, ((k - 1) \div width) * (2 * width),
                         IF this.m_useMinMax # 0 THEN this.m_horFilterM ELSE this.m_horFilter,
                         2 * ((k - 1) % width), 2 * width - 1, minValue, maxValue)
     % 65536]

\* filter(uint16 *out, ...): the store keeps the low 16 bits
filterUInt16(this, plane, width, height, minValue, maxValue) ==
  [k \in 1..(width * height) |->
     filterHorizontalInt(plane, ((k - 1) \div width) * (2 * width), this.m_horFilter,
                         2 * ((k - 1) % width), 2 * width - 1, minValue, maxValue)
     % 65536]

\* filter(imgpel *out, ...): the store keeps the low 8 bits
filterImgpel(this, plane, width, height, minValue, maxValue) ==
  [k \in 1..(width * height) |->
     filterHorizontalInt(plane, ((k - 1) \div width) * (2 * width), this.m_horFilter,
                         2 * ((k - 1) % width), 2 * width - 1, minValue, maxValue)
     % 256]

\* ------------------------------------------------------------------ Frame

Y_COMP == 0

U_COMP == 1

V_COMP == 2

\* sample k (0-based) of plane c of the picture numbered seed
Pixel(isFloat, seed, c, k) ==
  IF isFloat THEN ((seed * 7 + c * 3 + k * 5) % 9) - 4
             ELSE (seed * 7 + c * 3 + k * 5) % 11

\* a Frame of the given chroma format (widthC is the chroma width) and content
Frame(isFloat, bitDepth, width, widthC, height, seed, isAvailable) ==
  LET m_width == <<width, widthC, widthC>>
      planes  == [c \in 1..3 |->
                    [k \in 1..(m_width[c] * height) |-> Pixel(isFloat, seed, c - 1, k - 1)]]
      top     == IF isFloat THEN 2 ELSE 2 ^ bitDepth - 1
      foot    == IF seed % 2 = 0 \/ isFloat THEN 0 ELSE 2 ^ (bitDepth - 4)
  IN  [ m_isFloat     |-> isFloat,
        m_bitDepth    |-> bitDepth,
        m_width       |-> m_width,
        m_height      |-> <<height, height, height>>,
        m_compSize    |-> [c \in 1..3 |-> m_width[c] * height],
        m_frameNo     |-> seed,
        m_isAvailable |-> isAvailable,
        m_minPelValue |-> IF isFloat THEN <<0, -1 - (seed % 2), -1 - (seed % 2)>>
                                     ELSE <<foot, foot, foot>>,
        m_midPelValue |-> IF isFloat THEN <<1 + (seed % 2), 0, 0>>
                                     ELSE [c \in 1..3 |-> 2 ^ (bitDepth - 1) + foot],
        m_maxPelValue |-> IF isFloat THEN <<top, 1 + (seed % 2), 1 + (seed % 2)>>
                                     ELSE [c \in 1..3 |-> top - foot],
        m_floatComp   |-> IF isFloat THEN planes ELSE NULL,
        m_comp        |-> IF ~isFloat /\ bitDepth = 8 THEN planes ELSE NULL,
        m_ui16Comp    |-> IF ~isFloat /\ bitDepth > 8 THEN planes ELSE NULL ]

\* ---------------------------------------------------------------- process

\* Memcpy with the byte count one sample short
Memcpy_OneShort(dst, src, n) == [k \in DOMAIN dst |-> IF k < n THEN src[k] ELSE dst[k]]

\* memcpy(dst, src, n * sizeof(sample)): the first n samples of dst are src's
Memcpy(dst, src, n) == [k \in DOMAIN dst |-> IF k <= n THEN src[k] ELSE dst[k]]

\* CopyMetadata with the loop over the planes stopping before V_COMP
CopyMetadata_LoopShort(o, i) ==
  [o EXCEPT !.m_frameNo     = i.m_frameNo,
            !.m_isAvailable = TRUE,
            !.m_minPelValue = [c \in 1..3 |-> IF c < 3 THEN i.m_minPelValue[c] ELSE @[c]],
            !.m_midPelValue = [c \in 1..3 |-> IF c < 3 THEN i.m_midPelValue[c] ELSE @[c]],
            !.m_maxPelValue = [c \in 1..3 |-> IF c < 3 THEN i.m_maxPelValue[c] ELSE @[c]]]

\* out->m_frameNo = ...; out->m_isAvailable = TRUE; the loop over the three planes
CopyMetadata(o, i) ==
  [o EXCEPT !.m_frameNo     = i.m_frameNo,
            !.m_isAvailable = TRUE,
            !.m_minPelValue = [c \in 1..3 |-> i.m_minPelValue[c]],
            !.m_midPelValue = [c \in 1..3 |-> i.m_midPelValue[c]],
            !.m_maxPelValue = [c \in 1..3 |-> i.m_maxPelValue[c]]]

\* the three branches on the output's representation
ConvertPlanes(this, o, i) ==
  IF o.m_isFloat = TRUE THEN
    [o EXCEPT !.m_floatComp =
       [c \in 1..3 |->
          IF c = Y_COMP + 1
            THEN Memcpy(o.m_floatComp[c], i.m_floatComp[c], o.m_compSize[Y_COMP + 1])
            ELSE filterFloat(this, i.m_floatComp[c], o.m_width[c], o.m_height[c],
                             o.m_minPelValue[c], o.m_maxPelValue[c])]]
  ELSE IF o.m_bitDepth = 8 THEN
    [o EXCEPT !.m_comp =
       [c \in 1..3 |->
          IF c = Y_COMP + 1
            THEN Memcpy(o.m_comp[c], i.m_comp[c], o.m_compSize[Y_COMP + 1])
            ELSE filterImgpel(this, i.m_comp[c], o.m_width[c], o.m_height[c],
                              o.m_minPelValue[c], o.m_maxPelValue[c])]]
  ELSE
    [o EXCEPT !.m_ui16Comp =
       [c \in 1..3 |->
          IF c = Y_COMP + 1
            THEN Memcpy(o.m_ui16Comp[c], i.m_ui16Comp[c], o.m_compSize[Y_COMP + 1])
            ELSE filterUInt16(this, i.m_ui16Comp[c], o.m_width[c], o.m_height[c],
                              o.m_minPelValue[c], o.m_maxPelValue[c])]]

\* TypesDiffer with the bit depth compared for floating-point frames too
TypesDiffer_AnyDepth(o, i) == (o.m_isFloat # i.m_isFloat) \/ (o.m_bitDepth # i.m_bitDepth)

\* the first test of process: frames of different data types
TypesDiffer(o, i) ==
  (o.m_isFloat # i.m_isFloat) \/ ((i.m_isFloat = FALSE) /\ (o.m_bitDepth # i.m_bitDepth))

\* the second test of process: frames of different sizes
SizesDiffer(o, i) == o.m_compSize[Y_COMP + 1] # i.m_compSize[Y_COMP + 1]

EXIT_FAILURE == 1

\* process with the size test reporting through return in place of exit
process_SizeReturns(this, o, i) ==
  IF TypesDiffer(o, i) THEN
    [frame |-> o, pc |-> "exited", status |-> EXIT_FAILURE,
     stderr |-> <<"Error: trying to copy frames of different data types.">>]
  ELSE IF SizesDiffer(o, i) THEN
    [frame |-> o, pc |-> "returned", status |-> NULL,
     stderr |-> <<"Error: trying to copy frames of different sizes",
                  o.m_compSize[Y_COMP + 1], i.m_compSize[Y_COMP + 1]>>]
  ELSE
    [frame |-> ConvertPlanes(this, CopyMetadata(o, i), i), pc |-> "returned",
     status |-> NULL, stderr |-> << >>]

\* process with the metadata copied before the two tests
process_CopiesFirst(this, o, i) ==
  IF TypesDiffer(o, i) THEN
    [frame |-> CopyMetadata(o, i), pc |-> "exited", status |-> EXIT_FAILURE,
     stderr |-> <<"Error: trying to copy frames of different data types.">>]
  ELSE IF SizesDiffer(o, i) THEN
    [frame |-> CopyMetadata(o, i), pc |-> "exited", status |-> EXIT_FAILURE,
     stderr |-> <<"Error: trying to copy frames of different sizes",
                  o.m_compSize[Y_COMP + 1], i.m_compSize[Y_COMP + 1]>>]
  ELSE
    [frame |-> ConvertPlanes(this, CopyMetadata(o, i), i), pc |-> "returned",
     status |-> NULL, stderr |-> << >>]

\* process(out, inp): the frame left in out, where control goes, what stderr gets,
\* and the status handed to exit
process(this, o, i) ==
  IF TypesDiffer(o, i) THEN
    [frame |-> o, pc |-> "exited", status |-> EXIT_FAILURE,
     stderr |-> <<"Error: trying to copy frames of different data types.">>]
  ELSE IF SizesDiffer(o, i) THEN
    [frame |-> o, pc |-> "exited", status |-> EXIT_FAILURE,
     stderr |-> <<"Error: trying to copy frames of different sizes",
                  o.m_compSize[Y_COMP + 1], i.m_compSize[Y_COMP + 1]>>]
  ELSE
    [frame |-> ConvertPlanes(this, CopyMetadata(o, i), i), pc |-> "returned",
     status |-> NULL, stderr |-> << >>]

\* ------------------------------------------------- specification: process

\* largest frame number / picture content of a frame
MaxSeed == 1
\* the luma widths are 2, 4, .., 2 * MaxHalfWidth
MaxHalfWidth == 2

UseMinMaxValues == -1..4

BitDepths == {8, 16}

Converters ==
  { Conv444to422Generic(method, cl, useMinMax) :
      method \in Methods, cl \in ChromaLocations, useMinMax \in UseMinMaxValues }

\* 4:4:4 input frames, one row high
InputFrames ==
  { Frame(isFloat, bitDepth, 2 * hw, 2 * hw, 1, seed, isAvailable) :
      isFloat \in BOOLEAN, bitDepth \in BitDepths, hw \in 1..MaxHalfWidth,
      seed \in 0..MaxSeed, isAvailable \in BOOLEAN }

\* 4:2:2 output frames, not yet available, holding an older picture
OutputFrames ==
  { Frame(isFloat, bitDepth, 2 * hw, hw, 1, seed + 2, FALSE) :
      isFloat \in BOOLEAN, bitDepth \in BitDepths, hw \in 1..MaxHalfWidth,
      seed \in 0..MaxSeed }

Init ==
  /\ self \in Converters
  /\ inp \in InputFrames
  /\ out \in OutputFrames
  /\ out0 = out
  /\ pc = "ready"
  /\ stderr = << >>
  /\ status = NULL
  /\ args = NULL
  /\ res = NULL
  /\ tf = NULL
  /\ calls = NULL
  /\ values = NULL

Process ==
  /\ pc = "ready"
  /\ LET r == process(self, out, inp)
     IN  /\ out' = r.frame
         /\ pc' = r.pc
         /\ stderr' = r.stderr
         /\ status' = r.status
  /\ UNCHANGED <<self, inp, out0, args, res, tf, calls, values>>

Next == Process

Spec == Init /\ [][Next]_vars

\* -------------------------------------------------- specification: filter

SampleValues == {-2, 1, 200}

\* the caller's [minValue, maxValue]
Ranges == {<<-1, 1>>, <<-4, 4>>}

\* the rows of 2 * width samples
Rows(width) == [1..(2 * width) -> SampleValues]

\* a plane of height rows: row j is row 0 turned j columns to the left
Plane(row, height) ==
  [k \in 1..(Len(row) * height) |->
     row[((((k - 1) % Len(row)) + ((k - 1) \div Len(row))) % Len(row)) + 1]]

InitFilter ==
  /\ self \in Converters
  /\ \E width \in 1..MaxWidth, height \in 1..MaxHeight, range \in Ranges :
       \E row \in Rows(width) :
         args = [inp |-> Plane(row, height), width |-> width, height |-> height,
                 minValue |-> range[1], maxValue |-> range[2]]
  /\ res = NULL
  /\ pc = "ready"
  /\ inp = NULL
  /\ out = NULL
  /\ out0 = NULL
  /\ stderr = << >>
  /\ status = NULL
  /\ tf = NULL
  /\ calls = NULL
  /\ values = NULL

FilterFloat ==
  /\ pc = "ready"
  /\ res' = filterFloat(self, args.inp, args.width, args.height, args.minValue, args.maxValue)
  /\ pc' = "returned"
  /\ UNCHANGED <<self, inp, out, out0, stderr, status, args, tf, calls, values>>

NextFilter == FilterFloat

SpecFilter == InitFilter /\ [][NextFilter]_vars

\* -------------------------------------------------- TransferFunctionST240

\* 1.0 as a double of the transfer function
Unit == 100000000

\* the base of the two halves a double is split in to multiply
HalfUnit == 10000

\* ln 2
Ln2 == 69314718

Abs(x) == IF x < 0 THEN -x ELSE x

Sign(x) == IF x < 0 THEN -1 ELSE 1

\* a * b for doubles a and b, rounded toward zero
Mul(a, b) ==
  LET a1 == Abs(a) \div HalfUnit
      a0 == Abs(a) % HalfUnit
      b1 == Abs(b) \div HalfUnit
      b0 == Abs(b) % HalfUnit
  IN  Sign(a) * Sign(b)
        * (a1 * b1 + ((a1 * b0 + a0 * b1 + ((a0 * b0) \div HalfUnit)) \div HalfUnit))

\* the long division of r / b: sixteen more digits, in base 5 and base 2 by turns
RECURSIVE DivDigits(_, _, _, _)
DivDigits(q, r, b, step) ==
  IF step = 16 THEN q
  ELSE LET f == IF step % 2 = 0 THEN 5 ELSE 2
       IN  DivDigits(q * f + ((r * f) \div b), (r * f) % b, b, step + 1)

\* a / b for doubles a and b, b > 0, rounded toward zero
Div(a, b) == Sign(a) * DivDigits(Abs(a) \div b, Abs(a) % b, b, 0)

\* x / n for a double x and an integer n > 0, rounded toward zero
DivInt(x, n) == Sign(x) * (Abs(x) \div n)

\* dMax(a, b) of Global.H
dMax(a, b) == IF a > b THEN a ELSE b

\* t + t^3 / 3 + t^5 / 5 + ..., from the term t^n on
RECURSIVE AtanhSeries(_, _, _)
AtanhSeries(term, t2, n) ==
  IF n > 17 THEN 0
  ELSE DivInt(term, n) + AtanhSeries(Mul(term, t2), t2, n + 2)

\* ln m + k ln 2 for m > 0, m doubled until it is at least 0.75
RECURSIVE LnReduced(_, _)
LnReduced(m, k) ==
  IF m < 75000000 THEN LnReduced(2 * m, k - 1)
  ELSE 2 * AtanhSeries(Div(m - Unit, m + Unit), 
                       Mul(Div(m - Unit, m + Unit), Div(m - Unit, m + Unit)), 1)
       + k * Ln2

\* ln x, 0 < x < 1.5
Ln(x) == LnReduced(x, 0)

\* 1 + r + r^2 / 2 + ..., from the term r^i / i! on
RECURSIVE ExpSeries(_, _, _)
ExpSeries(term, r, i) ==
  IF i > 12 THEN 0
  ELSE term + ExpSeries(DivInt(Mul(term, r), i + 1), r, i + 1)

\* exp(r) / 2^n, ln 2 added to r until it is above -(ln 2) / 2
RECURSIVE ExpReduced(_, _)
ExpReduced(r, n) ==
  IF r < -34657359 THEN ExpReduced(r + Ln2, n + 1)
  ELSE ExpSeries(Unit, r, 0) \div (2 ^ n)

\* exp z, z <= 0.35
Exp(z) == ExpReduced(z, 0)

\* pow(x, y) of the C library, 0 <= x <= 1, y > 0
pow(x, y) == IF x <= 0 THEN 0 ELSE Exp(Mul(y, Ln(x)))

\* inverse with alpha not taken off the power branch
inverse_AlphaKept(this, value) ==
  IF value <= this.m_beta
    THEN 4 * value
    ELSE Mul(Unit + this.m_alpha, pow(value, this.m_inverseGamma))

\* TransferFunctionST240::inverse
inverse(this, value) ==
  IF value <= this.m_beta
    THEN 4 * value
    ELSE Mul(Unit + this.m_alpha, pow(value, this.m_inverseGamma)) - this.m_alpha

\* forward with the exponent of inverse
forward_InverseGamma(this, value) ==
  IF value <= this.m_invBeta
    THEN DivInt(value, 4)
    ELSE pow(dMax(Div(value + this.m_alpha, Unit + this.m_alpha), 0), this.m_inverseGamma)

\* TransferFunctionST240::forward
forward(this, value) ==
  IF value <= this.m_invBeta
    THEN DivInt(value, 4)
    ELSE pow(dMax(Div(value + this.m_alpha, Unit + this.m_alpha), 0), this.m_gamma)

\* TransferFunctionST240::TransferFunctionST240: 0.45, 1.0 / 0.45, 0.1115, 0.0228
TransferFunctionST240 ==
  LET this == [ m_inverseGamma |-> 45000000,
                m_gamma        |-> Div(Unit, 45000000),
                m_alpha        |-> 11150000,
                m_beta         |-> 2280000,
                m_invBeta      |-> NULL ]
  IN  [this EXCEPT !.m_invBeta = inverse(this, this.m_beta)]

\* ----------------------------------------- specification: transfer function

\* the values given are k / Samples, k = 0 .. Samples
Samples == 50
\* and the breakpoints with MaxNear values before and after each, NearStep apart
MaxNear == 8
NearStep == 1000
\* the longest chain of calls
MaxCalls == 2

\* the values in [0, 1] handed to the first call
GivenValues ==
  LET this == TransferFunctionST240
  IN  {k * (Unit \div Samples) : k \in 0..Samples}
        \cup {this.m_invBeta + j * NearStep : j \in (-MaxNear)..MaxNear}
        \cup {this.m_beta + j * NearStep : j \in (-MaxNear)..MaxNear}
        \cup {this.m_invBeta + 1, this.m_beta + 1}

InitTransfer ==
  /\ tf = TransferFunctionST240
  /\ calls = << >>
  /\ values \in {<<v>> : v \in GivenValues}
  /\ self = NULL
  /\ inp = NULL
  /\ out = NULL
  /\ out0 = NULL
  /\ pc = "ready"
  /\ stderr = << >>
  /\ status = NULL
  /\ args = NULL
  /\ res = NULL

Forward ==
  /\ Len(calls) < MaxCalls
  /\ calls' = Append(calls, "forward")
  /\ values' = Append(values, forward(tf, values[Len(values)]))
  /\ UNCHANGED <<self, inp, out, out0, pc, stderr, status, args, res, tf>>

Inverse ==
  /\ Len(calls) < MaxCalls
  /\ calls' = Append(calls, "inverse")
  /\ values' = Append(values, inverse(tf, values[Len(values)]))
  /\ UNCHANGED <<self, inp, out, out0, pc, stderr, status, args, res, tf>>

NextTransfer == Forward \/ Inverse

SpecTransfer == InitTransfer /\ [][NextTransfer]_vars

\* ------------------------------------------------------- claims on process

\* the luma plane of a frame, in the representation the frame is stored in
Luma(f) ==
  IF f.m_isFloat THEN f.m_floatComp[1]
  ELSE IF f.m_bitDepth = 8 THEN f.m_comp[1]
  ELSE f.m_ui16Comp[1]

\* the preconditions of process, as the specification words them
RepresentationMismatch(o, i) ==
  \/ o.m_isFloat # i.m_isFloat
  \/ ~o.m_isFloat /\ ~i.m_isFloat /\ o.m_bitDepth # i.m_bitDepth

SizeMismatch(o, i) == Len(Luma(o)) # Len(Luma(i))

\* two frames that differ only in bit depth
OnlyBitDepthDiffers(o, i) ==
  /\ o.m_isFloat = i.m_isFloat
  /\ o.m_bitDepth # i.m_bitDepth
  /\ Len(Luma(o)) = Len(Luma(i))

\* C1: a call on frames that violate a precondition (representation, bit depth of
\* fixed-point frames, luma sample count) ends in the error outcome and the output
\* frame, metadata and samples, is what it was before the call.
C1_ErrorWritesNothing ==
  (pc # "ready" /\ (RepresentationMismatch(out0, inp) \/ SizeMismatch(out0, inp)))
    => (pc = "exited" /\ stderr # << >> /\ out = out0)

C1_Witness ==
  /\ pc = "exited"
  /\ ~RepresentationMismatch(out0, inp)
  /\ SizeMismatch(out0, inp)
  /\ out = out0
  /\ out0.m_frameNo # inp.m_frameNo

\* C2 as stated: frames that differ only in bit depth, float or fixed-point alike,
\* end in the representation-mismatch error with the output untouched.
C2_AnyRepresentation ==
  (pc # "ready" /\ OnlyBitDepthDiffers(out0, inp))
    => (pc = "exited" /\ Len(stderr) = 1 /\ out = out0)

\* C2: fixed-point frames that differ only in bit depth end in the
\* representation-mismatch error with the output untouched; floating-point frames
\* that differ only in bit depth are converted.
C2_FixedPointBitDepth ==
  (pc # "ready" /\ OnlyBitDepthDiffers(out0, inp))
    => IF inp.m_isFloat
         THEN pc = "returned" /\ out.m_frameNo = inp.m_frameNo
         ELSE pc = "exited" /\ Len(stderr) = 1 /\ out = out0

C2_Witness ==
  /\ pc = "exited"
  /\ OnlyBitDepthDiffers(out0, inp)
  /\ ~inp.m_isFloat
  /\ Len(stderr) = 1
  /\ out = out0

\* C3 as stated: either mismatch comes back to the caller as an error it can tell
\* from the other, the process living on.
C3_ReturnsToCaller ==
  (pc # "ready" /\ (RepresentationMismatch(out0, inp) \/ SizeMismatch(out0, inp)))
    => (pc = "returned" /\ stderr # << >>)

\* C3: either mismatch ends the whole process through exit(EXIT_FAILURE), control
\* never coming back to the caller; the two kinds share the exit status and differ
\* in the line on stderr alone, the size line carrying the two luma sample counts and
\* the type line no detail; a pair with both mismatches reports the type one.
C3_ExitsWithMessage ==
  (pc # "ready" /\ (RepresentationMismatch(out0, inp) \/ SizeMismatch(out0, inp)))
    => /\ pc = "exited"
       /\ status = EXIT_FAILURE
       /\ IF RepresentationMismatch(out0, inp)
            THEN stderr = <<"Error: trying to copy frames of different data types.">>
            ELSE stderr = <<"Error: trying to copy frames of different sizes",
                            Len(Luma(out0)), Len(Luma(inp))>>

C3_Witness ==
  /\ pc = "exited"
  /\ status = EXIT_FAILURE
  /\ ~RepresentationMismatch(out0, inp)
  /\ Len(stderr) = 3
  /\ stderr[2] # stderr[3]

\* C4 as stated: after a call that returns, the frame number, the availability flag
\* and every plane's min, mid and max of the output are the input's.
C4_AllMetadataCopied ==
  pc = "returned"
    => /\ out.m_frameNo = inp.m_frameNo
       /\ out.m_isAvailable = inp.m_isAvailable
       /\ \A c \in 1..3 : /\ out.m_minPelValue[c] = inp.m_minPelValue[c]
                          /\ out.m_midPelValue[c] = inp.m_midPelValue[c]
                          /\ out.m_maxPelValue[c] = inp.m_maxPelValue[c]

\* C4: after a call that returns, the frame number and every plane's min, mid and
\* max of the output are the input's, and the output's availability flag is TRUE
\* whatever the input's flag is.
C4_MetadataCopiedAvailableSet ==
  pc = "returned"
    => /\ out.m_frameNo = inp.m_frameNo
       /\ out.m_isAvailable = TRUE
       /\ \A c \in 1..3 : /\ out.m_minPelValue[c] = inp.m_minPelValue[c]
                          /\ out.m_midPelValue[c] = inp.m_midPelValue[c]
                          /\ out.m_maxPelValue[c] = inp.m_maxPelValue[c]

C4_Witness ==
  /\ pc = "returned"
  /\ inp.m_isAvailable = FALSE
  /\ out.m_isAvailable = TRUE
  /\ out0.m_frameNo # inp.m_frameNo
  /\ out0.m_minPelValue[3] # inp.m_minPelValue[3]
  /\ out0.m_midPelValue[3] # inp.m_midPelValue[3]
  /\ out0.m_maxPelValue[3] # inp.m_maxPelValue[3]
  /\ out.m_maxPelValue[3] = inp.m_maxPelValue[3]

\* C5: after a call that returns, in each representation the output's luma plane is
\* the input's, sample for sample over all compSize[Y] samples, whatever the filter
\* tables and the overshoot policy; the buffers of the other representations stay
\* as they were, and the input frame is never modified.
C5_LumaCopiedVerbatim ==
  /\ [](pc = "returned"
          => /\ Len(Luma(out)) = out.m_compSize[1]
             /\ \A k \in 1..out.m_compSize[1] : Luma(out)[k] = Luma(inp)[k]
             /\ out.m_isFloat => (out.m_comp = out0.m_comp /\ out.m_ui16Comp = out0.m_ui16Comp)
             /\ ~out.m_isFloat => out.m_floatComp = out0.m_floatComp)
  /\ [][inp' = inp]_vars

C5_Witness ==
  /\ pc = "returned"
  /\ ~inp.m_isFloat
  /\ inp.m_bitDepth = 16
  /\ self.m_useMinMax = 2
  /\ out0.m_ui16Comp[1][out.m_compSize[1]] # inp.m_ui16Comp[1][out.m_compSize[1]]
  /\ out.m_ui16Comp[1] = inp.m_ui16Comp[1]

\* -------------------------------------------------------- claims on filter

\* the positions j * width + i of the output plane, as pairs <<j, i>>
OutputPositions == (0..(args.height - 1)) \X (0..(args.width - 1))

\* the sample filter wrote at row j, column i
Written(j, i) == res[j * args.width + i + 1]

\* row j of the input plane
InputRow(j) == [p \in 1..(2 * args.width) |-> args.inp[j * 2 * args.width + p]]

\* a row with pad copies of its first column before it and of its last after it
Replicated(row, pad) ==
  [q \in 1..(Len(row) + 2 * pad) |->
     IF q <= pad THEN row[1]
     ELSE IF q > pad + Len(row) THEN row[Len(row)]
     ELSE row[q - pad]]

\* the columns of the tap window of table f at output column i, none clamped
WindowColumns(f, i) ==
  [t \in 1..f.m_numberOfTaps |-> 2 * i + (t - 1) - f.m_positionOffset]

\* the samples under that window, read from the replicated row
WindowSamples(f, row, i) ==
  [t \in 1..f.m_numberOfTaps |->
     Replicated(row, f.m_numberOfTaps)[WindowColumns(f, i)[t] + f.m_numberOfTaps + 1]]

LocalMin(f, row, i) ==
  LET S == {WindowSamples(f, row, i)[t] : t \in 1..f.m_numberOfTaps}
  IN  CHOOSE x \in S : \A y \in S : x <= y

LocalMax(f, row, i) ==
  LET S == {WindowSamples(f, row, i)[t] : t \in 1..f.m_numberOfTaps}
  IN  CHOOSE x \in S : \A y \in S : x >= y

\* the sum of the float taps of f times the samples under its window
Convolution(f, row, i) ==
  LET w == WindowSamples(f, row, i)
      sum[t \in 0..f.m_numberOfTaps] ==
        IF t = 0 THEN 0 ELSE sum[t - 1] + f.m_floatFilter[t] * w[t]
  IN  sum[f.m_numberOfTaps]

\* (sum + offset) * scale of table f, as a double
FilterResult(f, row, i) ==
  [n |-> (Convolution(f, row, i) + f.m_floatOffset) * f.m_floatScaleNum,
   d |-> f.m_floatScaleDen]

\* lo <= r <= hi for a double r
Within(r, lo, hi) == lo * r.d <= r.n /\ r.n <= hi * r.d

Clamped(x, lo, hi) == IF x > hi THEN hi ELSE IF x < lo THEN lo ELSE x

\* the table whose window gives the local range of a policy
RangeTable(policy) == IF policy = 1 THEN self.m_horFilter ELSE self.m_horFilterM

\* the primary result lies within the local range of the policy
PrimaryInRange(policy, row, i) ==
  Within(FilterResult(self.m_horFilter, row, i),
         LocalMin(RangeTable(policy), row, i), LocalMax(RangeTable(policy), row, i))

\* what each overshoot policy resolves to before the closing clip, as a double
PolicyResult(policy, row, i) ==
  LET primary == FilterResult(self.m_horFilter, row, i)
  IN  CASE policy \in {1, 2} ->
             IF PrimaryInRange(policy, row, i) THEN primary
             ELSE FilterResult(self.m_horFilterM, row, i)
        [] policy = 3 ->
             LET lo == LocalMin(self.m_horFilterM, row, i)
                 hi == LocalMax(self.m_horFilterM, row, i)
             IN  IF Within(primary, lo, hi) THEN primary
                 ELSE IF primary.n > hi * primary.d THEN ToDouble(hi) ELSE ToDouble(lo)
        [] OTHER -> primary

\* the four overshoot policies, None first, as values of m_useMinMax
Policies == 0..3

\* C6 as stated: under every policy, None included, filter writes the policy's
\* result clamped to the caller's [minValue, maxValue] when the primary table's clip
\* flag is set, and the policy's result unclamped when it is not.
C6_ClipToCallerRange ==
  (pc = "returned" /\ self.m_useMinMax \in Policies) =>
    \A ji \in OutputPositions :
      Written(ji[1], ji[2]) =
        IF self.m_horFilter.m_clip
          THEN Clamped(CastFloat(PolicyResult(self.m_useMinMax, InputRow(ji[1]), ji[2])),
                       args.minValue, args.maxValue)
          ELSE CastFloat(PolicyResult(self.m_useMinMax, InputRow(ji[1]), ji[2]))

\* the local range of ClampToLocalRange meets the caller's range
RangesMeet(row, i) ==
  /\ args.minValue <= LocalMax(self.m_horFilterM, row, i)
  /\ LocalMin(self.m_horFilterM, row, i) <= args.maxValue

\* the written sample lies in the fallback window's local range
InLocalRange(j, i) ==
  /\ LocalMin(self.m_horFilterM, InputRow(j), i) <= Written(j, i)
  /\ Written(j, i) <= LocalMax(self.m_horFilterM, InputRow(j), i)

\* C7 as stated: under ClampToLocalRange every written sample lies between the
\* minimum and the maximum of the samples under the fallback table's window,
\* whatever the clip flag and the caller's range.
C7_AlwaysInLocalRange ==
  (pc = "returned" /\ self.m_useMinMax = 3) =>
    \A ji \in OutputPositions : InLocalRange(ji[1], ji[2])

\* C7: under ClampToLocalRange every written sample lies between the minimum and
\* the maximum of the samples under the fallback table's window whenever the
\* primary clip flag is not set or the caller's [minValue, maxValue] meets that
\* local range; with the flag set and the two ranges apart, the written sample is
\* the end of the caller's range nearest the local range, outside the local range.
C7_InLocalRangeUnlessClippedAway ==
  (pc = "returned" /\ self.m_useMinMax = 3) =>
    \A ji \in OutputPositions :
      IF ~self.m_horFilter.m_clip \/ RangesMeet(InputRow(ji[1]), ji[2])
        THEN InLocalRange(ji[1], ji[2])
        ELSE /\ ~InLocalRange(ji[1], ji[2])
             /\ Written(ji[1], ji[2]) \in {args.minValue, args.maxValue}

\* the clamp acts: the primary result overshoots the local range, the clip is on
C7_Witness ==
  /\ pc = "returned"
  /\ self.m_useMinMax = 3
  /\ self.m_horFilter.m_clip
  /\ \E ji \in OutputPositions :
       /\ RangesMeet(InputRow(ji[1]), ji[2])
       /\ ~PrimaryInRange(3, InputRow(ji[1]), ji[2])
       /\ Written(ji[1], ji[2]) = LocalMax(self.m_horFilterM, InputRow(ji[1]), ji[2])
       /\ LocalMin(self.m_horFilterM, InputRow(ji[1]), ji[2]) < Written(ji[1], ji[2])

\* what the None policy writes for the same row, table and caller's range
NoneWrites(j, i) ==
  filterHorizontalFloat(args.inp, j * 2 * args.width, self.m_horFilter, 2 * i,
                        2 * args.width - 1, args.minValue, args.maxValue)

\* C8 as stated: under RecomputeIfOutside and BlendIfOutside, where the primary
\* result lies within the policy's local range, the written sample is the primary
\* result, which is what the None policy writes for the same window, table and
\* caller's range.
C8_InRangeEqualsNone ==
  (pc = "returned" /\ self.m_useMinMax \in {1, 2}) =>
    \A ji \in OutputPositions :
      PrimaryInRange(self.m_useMinMax, InputRow(ji[1]), ji[2])
        => Written(ji[1], ji[2]) = NoneWrites(ji[1], ji[2])

\* C9: under the None policy every written sample is what the taps give on the row
\* extended by copies of its first and last column with no index clamped, at the
\* border columns as at the inner ones; every tap's column is clamped by itself,
\* and lies in [0, W - 1] of the row being filtered.
C9_BorderReplication ==
  (pc = "returned" /\ self.m_useMinMax \notin {1, 2, 3}) =>
    \A ji \in OutputPositions :
      /\ Written(ji[1], ji[2]) =
           LET r == CastFloat(FilterResult(self.m_horFilter, InputRow(ji[1]), ji[2]))
           IN  IF self.m_horFilter.m_clip THEN Clamped(r, -1, 1) ELSE r
      /\ \A t \in 1..self.m_horFilter.m_numberOfTaps :
           LET col  == WindowColumns(self.m_horFilter, ji[2])[t]
               read == TapIndex(self.m_horFilter, 2 * ji[2], 2 * args.width - 1, t - 1)
           IN  /\ read \in 0..(2 * args.width - 1)
               /\ read = Clamped(col, 0, 2 * args.width - 1)

\* a window reaching past both ends of a row whose border samples differ from
\* their neighbours, in a plane of two rows
C9_Witness ==
  /\ pc = "returned"
  /\ self.m_useMinMax = 0
  /\ args.height = 2
  /\ args.width = 2
  /\ args.inp[1] # args.inp[2]
  /\ args.inp[7] # args.inp[8]
  /\ args.inp[4] # args.inp[5]
  /\ WindowColumns(self.m_horFilter, 0)[1] < 0
  /\ WindowColumns(self.m_horFilter, 1)[self.m_horFilter.m_numberOfTaps] > 3
  /\ Written(1, 1) =
       CastFloat(FilterResult(self.m_horFilter, InputRow(1), 1))

\* the sum of the float taps of a table
TapSum(f) ==
  LET sum[t \in 0..f.m_numberOfTaps] ==
        IF t = 0 THEN 0 ELSE sum[t - 1] + f.m_floatFilter[t]
  IN  sum[f.m_numberOfTaps]

\* the taps sum to S, the offset is 0 and the scale is 1 / S
Normalised(f) ==
  /\ f.m_floatOffset = 0
  /\ TapSum(f) # 0
  /\ f.m_floatScaleNum * TapSum(f) = f.m_floatScaleDen

\* every sample of the input plane is c
ConstantPlane(c) == \A k \in DOMAIN args.inp : args.inp[k] = c

\* C10 as stated: under the None policy a normalised primary table (taps summing
\* to S, offset 0, scale 1 / S; 0 1 1 0 with scale 0.5 is one) turns a constant
\* plane into the same constant at every output position.
C10_ConstantReproduced ==
  (pc = "returned" /\ self.m_useMinMax = 0 /\ Normalised(self.m_horFilter)) =>
    \A c \in SampleValues :
      ConstantPlane(c) => \A ji \in OutputPositions : Written(ji[1], ji[2]) = c

\* C10: under the None policy a normalised primary table whose clip flag is not
\* set turns a constant plane into the same constant at every output position,
\* the first and last columns of each row included.
C10_ConstantReproducedUnclipped ==
  (/\ pc = "returned"
   /\ self.m_useMinMax = 0
   /\ Normalised(self.m_horFilter)
   /\ ~self.m_horFilter.m_clip) =>
    \A c \in SampleValues :
      ConstantPlane(c) => \A ji \in OutputPositions : Written(ji[1], ji[2]) = c

\* the scenario: taps 0 1 1 0, offset 0, scale 0.5, phase 0, a plane of 100.0
C10_Witness ==
  /\ pc = "returned"
  /\ self.m_useMinMax = 0
  /\ self.m_horFilter.m_floatFilter = <<0, 1, 1, 0>>
  /\ self.m_horFilter.m_floatOffset = 0
  /\ self.m_horFilter.m_floatScaleNum = 1
  /\ self.m_horFilter.m_floatScaleDen = 2
  /\ ~self.m_horFilter.m_clip
  /\ args.width = 2
  /\ args.height = 2
  /\ ConstantPlane(200)
  /\ res = <<200, 200, 200, 200>>


\* the primary result lies strictly above the maximum or strictly below the
\* minimum of the samples under the primary table's own window
Triggered(row, i) ==
  LET primary == FilterResult(self.m_horFilter, row, i)
  IN  \/ primary.n > LocalMax(self.m_horFilter, row, i) * primary.d
      \/ primary.n < LocalMin(self.m_horFilter, row, i) * primary.d

\* the primary table's optional clip, to the caller's range
PrimaryClip(x) ==
  IF self.m_horFilter.m_clip THEN Clamped(x, args.minValue, args.maxValue) ELSE x

\* C13: under RecomputeIfOutside the trigger test is against the minimum and the
\* maximum of the samples under the primary table's own window; wherever the
\* primary result is strictly outside them the written sample is the fallback
\* table's result over the fallback's window, tested against no range, with the
\* primary's optional clip alone applied to it; elsewhere it is the primary result
\* with that clip.
C13_RecomputeOverOwnWindow ==
  (pc = "returned" /\ self.m_useMinMax = 1) =>
    \A ji \in OutputPositions :
      Written(ji[1], ji[2]) =
        IF Triggered(InputRow(ji[1]), ji[2])
          THEN PrimaryClip(CastFloat(FilterResult(self.m_horFilterM, InputRow(ji[1]), ji[2])))
          ELSE PrimaryClip(CastFloat(FilterResult(self.m_horFilter, InputRow(ji[1]), ji[2])))

\* at one position the trigger fires and the fallback result is written; at
\* another the primary result is outside the range of the fallback's window, inside
\* that of its own, and is written
C13_Witness ==
  /\ pc = "returned"
  /\ self.m_useMinMax = 1
  /\ ~self.m_horFilter.m_clip
  /\ \E ji \in OutputPositions :
       LET row == InputRow(ji[1])
       IN  /\ Triggered(row, ji[2])
           /\ Written(ji[1], ji[2]) = CastFloat(FilterResult(self.m_horFilterM, row, ji[2]))
           /\ Written(ji[1], ji[2]) # CastFloat(FilterResult(self.m_horFilter, row, ji[2]))
  /\ \E ji \in OutputPositions :
       LET row == InputRow(ji[1])
       IN  /\ ~Triggered(row, ji[2])
           /\ ~PrimaryInRange(2, row, ji[2])
           /\ Written(ji[1], ji[2]) = CastFloat(FilterResult(self.m_horFilter, row, ji[2]))
           /\ Written(ji[1], ji[2]) # CastFloat(FilterResult(self.m_horFilterM, row, ji[2]))

\* the converter with the same primary table and the None policy
NoneConverter == [self EXCEPT !.m_useMinMax = 0, !.m_horFilterM = NULL]

\* the fallback table is allocated: it is the DF_F0 table of one of the phases
FallbackAllocated == self.m_horFilterM \in {ScaleFilter(DF_F0, 0), ScaleFilter(DF_F0, 1)}

\* C15: for every value of useMinMax, those below 0 and above 3 included, the
\* fallback table is read only where it was allocated: it is null when
\* useMinMax = 0 and allocated for every other value, and for every value
\* outside {1, 2, 3} the plane written is the one the None converter, which has
\* no fallback, writes from the same input and caller's range.
C15_FallbackReadOnlyWhenAllocated ==
  /\ IF self.m_useMinMax = 0 THEN self.m_horFilterM = NULL ELSE FallbackAllocated
  /\ (pc = "returned" /\ self.m_useMinMax \notin {1, 2, 3}) =>
       res = filterFloat(NoneConverter, args.inp, args.width, args.height,
                         args.minValue, args.maxValue)
  /\ (pc = "returned" /\ self.m_useMinMax \in {1, 2, 3}) => FallbackAllocated

\* useMinMax = 4, the fallback allocated and not read: a sample is the primary
\* result where ClampToLocalRange would have clamped it
C15_Witness ==
  /\ pc = "returned"
  /\ self.m_useMinMax = 4
  /\ FallbackAllocated
  /\ ~self.m_horFilter.m_clip
  /\ \E ji \in OutputPositions :
       /\ ~PrimaryInRange(3, InputRow(ji[1]), ji[2])
       /\ Written(ji[1], ji[2]) =
            CastFloat(FilterResult(self.m_horFilter, InputRow(ji[1]), ji[2]))
       /\ Written(ji[1], ji[2]) > LocalMax(self.m_horFilterM, InputRow(ji[1]), ji[2])

\* ------------------------------------------- claims on the integer paths

\* the chroma planes, as indices of a frame's per-plane arrays
ChromaPlanes == {U_COMP + 1, V_COMP + 1}

\* the fixed-point planes of a frame: 8-bit samples or 16-bit samples
IntegerPlanes(f) == IF f.m_bitDepth = 8 THEN f.m_comp ELSE f.m_ui16Comp

\* the number of values of a sample of a fixed-point frame
SampleValuesCount(f) == IF f.m_bitDepth = 8 THEN 2 ^ 8 ELSE 2 ^ 16

\* row j of plane c of the input frame, twice as wide as the output's
InputChromaRow(c, j) ==
  [p \in 1..(2 * out.m_width[c]) |->
     IntegerPlanes(inp)[c][j * 2 * out.m_width[c] + p]]

\* the sum of the integer taps of f times the samples under its window
IntegerConvolution(f, row, i) ==
  LET w == WindowSamples(f, row, i)
      sum[t \in 0..f.m_numberOfTaps] ==
        IF t = 0 THEN 0 ELSE sum[t - 1] + f.m_i32Filter[t] * w[t]
  IN  sum[f.m_numberOfTaps]

\* (sum + offset) >> shift of the primary table, clamped when its clip flag is set
IntegerResult(c, j, i) ==
  LET f == self.m_horFilter
      r == (IntegerConvolution(f, InputChromaRow(c, j), i) + f.m_i32Offset)
             \div (2 ^ f.m_i32Shift)
  IN  IF f.m_clip THEN Clamped(r, out.m_minPelValue[c], out.m_maxPelValue[c]) ELSE r

\* the positions of chroma plane c of the output, as pairs <<j, i>>
ChromaPositions(c) == (0..(out.m_height[c] - 1)) \X (0..(out.m_width[c] - 1))

\* the sample of chroma plane c the call left at row j, column i
ChromaWritten(c, j, i) == IntegerPlanes(out)[c][j * out.m_width[c] + i + 1]

\* a fixed-point frame has been converted
IntegerConverted == pc = "returned" /\ ~out.m_isFloat

\* C14 as stated: on the 8-bit and 16-bit paths, under every overshoot policy,
\* every chroma sample written is (sum of integer tap * replicated sample +
\* integer offset) >> integer shift, clamped to the caller's range when the
\* primary clip flag is set and only then.
C14_IntegerSampleIsResult ==
  IntegerConverted =>
    \A c \in ChromaPlanes : \A ji \in ChromaPositions(c) :
      ChromaWritten(c, ji[1], ji[2]) = IntegerResult(c, ji[1], ji[2])

\* C14, amended: on the 8-bit and 16-bit paths, under every overshoot policy,
\* every chroma sample written is that result as the store into the sample type
\* leaves it, its low 8 or 16 bits: the result itself where it is within the
\* sample type, wrapped where it is negative or too large; neither the fallback
\* table nor a local minimum or maximum has a part in it.
C14_IntegerSampleIsResultStored ==
  IntegerConverted =>
    \A c \in ChromaPlanes : \A ji \in ChromaPositions(c) :
      ChromaWritten(c, ji[1], ji[2]) =
        IntegerResult(c, ji[1], ji[2]) % SampleValuesCount(out)

\* an 8-bit frame under an overshoot policy, the fallback allocated: one sample
\* is a negative result wrapped, another a result within the sample type that
\* the fallback table would not give
C14_Witness ==
  /\ IntegerConverted
  /\ out.m_bitDepth = 8
  /\ self.m_useMinMax \in {1, 2, 3}
  /\ self.m_horFilterM.m_numberOfTaps > 0
  /\ \E c \in ChromaPlanes : \E ji \in ChromaPositions(c) :
       /\ IntegerResult(c, ji[1], ji[2]) < 0
       /\ ChromaWritten(c, ji[1], ji[2]) = IntegerResult(c, ji[1], ji[2]) + 2 ^ 8
  /\ \E c \in ChromaPlanes : \E ji \in ChromaPositions(c) :
       /\ IntegerResult(c, ji[1], ji[2]) > 0
       /\ ChromaWritten(c, ji[1], ji[2]) = IntegerResult(c, ji[1], ji[2])
       /\ ChromaWritten(c, ji[1], ji[2]) #
            (IntegerConvolution(self.m_horFilterM, InputChromaRow(c, ji[1]), ji[2])
               + self.m_horFilterM.m_i32Offset) \div (2 ^ self.m_horFilterM.m_i32Shift)

\* ------------------------------------------- claims on TransferFunctionST240

\* 1e-6
Tolerance == Unit \div 1000000

\* 1e-4
GapTolerance == Unit \div 10000

\* forward, then inverse, have been called on the value given
RoundTrip == calls = <<"forward", "inverse">>

\* the value given is above invBeta and what forward returned is not above beta
InGap == values[1] > tf.m_invBeta /\ values[2] <= tf.m_beta

\* C11 as stated: for every v in [0, 1], inverse(forward(v)) is v within 1e-6.
C11_RoundTripEverywhere ==
  RoundTrip => Abs(values[3] - values[1]) <= Tolerance

\* C11, amended: inverse(forward(v)) is v within 1e-6 for every v in [0, 1]
\* except those above invBeta that forward's power branch sends to beta or
\* below: there inverse takes its toe branch, returns 4 * forward(v), and
\* misses v by more than 1e-6 and less than 1e-4.
C11_RoundTripOutsideGap ==
  RoundTrip =>
    IF InGap
      THEN /\ values[3] = 4 * values[2]
           /\ Abs(values[3] - values[1]) > Tolerance
           /\ Abs(values[3] - values[1]) <= GapTolerance
      ELSE Abs(values[3] - values[1]) <= Tolerance

C11_Witness == RoundTrip /\ InGap


\* forward has been called once, on invBeta or the next double above it
ForwardAtBreak ==
  /\ calls = <<"forward">>
  /\ values[1] \in {tf.m_invBeta, tf.m_invBeta + 1}

\* inverse has been called once, on beta or the next double above it
InverseAtBreak ==
  /\ calls = <<"inverse">>
  /\ values[1] \in {tf.m_beta, tf.m_beta + 1}

\* the constructor leaves invBeta = inverse(beta), the toe branch's 4 * beta
InvBetaIsInverseOfBeta ==
  /\ tf.m_invBeta = inverse(tf, tf.m_beta)
  /\ tf.m_invBeta = 4 * tf.m_beta

\* forward at the breakpoint is within eps of the toe branch's invBeta / 4
ForwardMeets(eps) ==
  ForwardAtBreak => Abs(values[2] - DivInt(tf.m_invBeta, 4)) <= eps

\* inverse at the breakpoint is within eps of the toe branch's 4 * beta
InverseMeets(eps) ==
  InverseAtBreak => Abs(values[2] - 4 * tf.m_beta) <= eps

\* C12 as stated: invBeta is inverse(beta), the toe branch's 4 * beta, and at
\* its breakpoint each function's two branches agree within floating tolerance.
C12_BranchesAgree ==
  /\ InvBetaIsInverseOfBeta
  /\ ForwardMeets(Tolerance)
  /\ InverseMeets(Tolerance)

\* C12, amended: invBeta is inverse(beta), the toe branch's 4 * beta; at its
\* breakpoint each function's two branches agree within 1e-4 only: the power
\* branch is more than 1e-6 away from the toe branch just above the breakpoint.
C12_BranchesAgreeCoarsely ==
  /\ InvBetaIsInverseOfBeta
  /\ ForwardMeets(GapTolerance)
  /\ InverseMeets(GapTolerance)
  /\ ForwardAtBreak /\ values[1] > tf.m_invBeta
       => Abs(values[2] - DivInt(tf.m_invBeta, 4)) > Tolerance
  /\ InverseAtBreak /\ values[1] > tf.m_beta
       => Abs(values[2] - 4 * tf.m_beta) > Tolerance

C12_Witness == ForwardAtBreak /\ values[1] > tf.m_invBeta /\ values[2] < tf.m_beta


====
